---------------------------- MODULE Spec2Model ----------------------------
(***************************************************************************)
(* Model of the PatentSearch engine (Thinkstruct/backend/services/         *)
(* search_engine.py) and of the routers that expose it.                    *)
(*                                                                         *)
(* Strings are TLA+ strings; a character is a string of length 1.          *)
(* Similarity scores are integers in units of 1e-5 (90000 is 0.9), so that *)
(* the rounding to 4 decimal places done by the engine is not the          *)
(* identity.  Python's 0-based list positions are 1-based here.            *)
(* The embedding model is an external function: the similarity of a query  *)
(* to each record is drawn from ScoreValues at each call.                  *)
(***************************************************************************)
EXTENDS Integers, Sequences, FiniteSets, TLC

VARIABLES
    patents,        \* self.patents: the corpus, a sequence of records
    _doc_index,     \* self._doc_index: doc_number -> position
    embeddings,     \* self.embeddings: None or one row per record
    model,          \* self.model: "None" or "loaded"
    pc,             \* "idle": no call in progress; "done": a call has returned
    op,             \* the operation that returned last
    request,        \* its arguments
    candidates,     \* the (idx, score) list the call ended with
    results,        \* the result objects the engine method built
    source_patent,  \* the record get_patent_by_id returned, or None
    response,       \* the HTTP response of an endpoint, or None
    work,           \* the batches of texts the call handed to model.encode
    raised,         \* the message of the exception the call raised, or None
    risk_in,        \* argument of a direct _calculate_risk_level call
    risk_out,       \* its return value
    files,          \* the data file and the persisted embeddings file
    failed_loads,   \* how many times loading the model has failed
    _engine,        \* dependencies._engine: None or an engine of the heap
    heap,           \* the engine objects constructed so far
    threads,        \* the requests being served: where each one is
    records,        \* argument of deduplicate_records
    unique_records, \* its return value
    duplicate_count,       \* stats.duplicate_count
    duplicate_doc_numbers  \* stats.duplicate_doc_numbers

vars == <<patents, _doc_index, embeddings, model, pc, op, request, candidates,
          results, source_patent, response, work, raised, risk_in, risk_out,
          files, failed_loads, _engine, heap, threads, records, unique_records,
          duplicate_count, duplicate_doc_numbers>>

None == "None"

-----------------------------------------------------------------------------
(* Bounds of the model *)

MaxRecords == 3
MaxTopK == 2
MaxLimit == 2

-----------------------------------------------------------------------------
(* Python str operations *)

Char(s, i) == SubSeq(s, i, i)
Rest(s) == SubSeq(s, 2, Len(s))

LowerCase == "abcdefghijklmnopqrstuvwxyz"
UpperCase == "ABCDEFGHIJKLMNOPQRSTUVWXYZ"
\* characters in code point order
Ascii == " -.0123456789" \o UpperCase \o LowerCase

ToUpperTable ==
    [c \in {Char(LowerCase, i) : i \in 1..26} |->
        Char(UpperCase, CHOOSE i \in 1..26 : Char(LowerCase, i) = c)]
ToLowerTable ==
    [c \in {Char(UpperCase, i) : i \in 1..26} |->
        Char(LowerCase, CHOOSE i \in 1..26 : Char(UpperCase, i) = c)]
OrdTable ==
    [c \in {Char(Ascii, i) : i \in 1..Len(Ascii)} |->
        CHOOSE i \in 1..Len(Ascii) : Char(Ascii, i) = c]

\* s.upper() and s.lower(), character by character; the string is halved at
\* each step so that long texts do not nest deeply
RECURSIVE Upper(_)
Upper(s) ==
    IF s = "" THEN ""
    ELSE IF Len(s) = 1
         THEN (IF s \in DOMAIN ToUpperTable THEN ToUpperTable[s] ELSE s)
         ELSE Upper(SubSeq(s, 1, Len(s) \div 2))
                  \o Upper(SubSeq(s, Len(s) \div 2 + 1, Len(s)))

RECURSIVE Lower(_)
Lower(s) ==
    IF s = "" THEN ""
    ELSE IF Len(s) = 1
         THEN (IF s \in DOMAIN ToLowerTable THEN ToLowerTable[s] ELSE s)
         ELSE Lower(SubSeq(s, 1, Len(s) \div 2))
                  \o Lower(SubSeq(s, Len(s) \div 2 + 1, Len(s)))

\* str.replace(old, new): every non-overlapping occurrence, left to right
RECURSIVE Replace(_, _, _)
Replace(s, old, new) ==
    IF Len(s) < Len(old) THEN s
    ELSE IF SubSeq(s, 1, Len(old)) = old
         THEN new \o Replace(SubSeq(s, Len(old) + 1, Len(s)), old, new)
         ELSE Char(s, 1) \o Replace(Rest(s), old, new)

RECURSIVE LStrip(_)
LStrip(s) == IF s # "" /\ Char(s, 1) = " " THEN LStrip(Rest(s)) ELSE s
RECURSIVE RStrip(_)
RStrip(s) ==
    IF s # "" /\ Char(s, Len(s)) = " "
    THEN RStrip(SubSeq(s, 1, Len(s) - 1)) ELSE s
Strip(s) == RStrip(LStrip(s))

StartsWith(s, p) == Len(p) <= Len(s) /\ SubSeq(s, 1, Len(p)) = p

\* sub in s
Contains(s, sub) ==
    \E i \in 1..(Len(s) - Len(sub) + 1) : SubSeq(s, i, i + Len(sub) - 1) = sub

\* a < b on str: lexicographic by code point
RECURSIVE StrLess(_, _)
StrLess(a, b) ==
    IF b = "" THEN FALSE
    ELSE IF a = "" THEN TRUE
    ELSE IF Char(a, 1) = Char(b, 1) THEN StrLess(Rest(a), Rest(b))
    ELSE OrdTable[Char(a, 1)] < OrdTable[Char(b, 1)]

\* sep.join(seq)
RECURSIVE Join(_, _)
Join(seq, sep) ==
    IF seq = <<>> THEN ""
    ELSE IF Len(seq) = 1 THEN seq[1]
    ELSE seq[1] \o sep \o Join(Tail(seq), sep)

\* seq[:n] for n >= 0
Take(seq, n) == SubSeq(seq, 1, IF n < Len(seq) THEN n ELSE Len(seq))

Min(a, b) == IF a < b THEN a ELSE b

Digits == <<"0", "1", "2", "3", "4", "5", "6", "7", "8", "9">>
RECURSIVE Decimal(_)
\* f"{n}" of a natural number
Decimal(n) ==
    IF n < 10 THEN Digits[n + 1]
    ELSE Decimal(n \div 10) \o Digits[(n % 10) + 1]

-----------------------------------------------------------------------------
(* The corpus *)

Patent(d, t, a, desc, cl, c, p) ==
    [doc_number |-> d, title |-> t, abstract |-> a, detailed_description |-> desc,
     claims |-> cl, classification |-> c, publication_date |-> p]

\* Records a cleaned corpus file may hold.  A, B and C are the records of the
\* end-to-end scenario; D has a doc_number whose normalised form is that of A,
\* a lower-case classification and no publication date.
RecA == Patent("A", "tire sensor", "a tire", "Desc A",
               <<"1. comprising a sensor">>, "B60C", "2020-01-01")
\* n copies of s
RECURSIVE Repeat(_, _)
Repeat(s, n) == IF n = 0 THEN "" ELSE s \o Repeat(s, n - 1)

\* a description of 504 characters and a list of 11 claims: longer than what
\* a result carries
LongDescription == Repeat("a valve stem. ", 36)
ManyClaims ==
    <<"1. a valve", "2. the valve of claim 1", "3. c", "4. d", "5. e", "6. f",
      "7. g", "8. h", "9. i", "10. j", "11. k">>

RecB == Patent("B", "Tire valve", "a valve with a sensor", LongDescription,
               ManyClaims, "B60C", "2022-01-01")
RecC == Patent("C", "bearing", "a bearing", "",
               <<>>, "F16C", "2019-01-01")
RecD == Patent("US-A", "Wheel sensor", "a wheel", "Desc D",
               <<"1. a wheel">>, "b60b", "")

\* the order in which the cleaned corpus file lists them
RecordPool == <<RecA, RecB, RecC, RecD>>

\* top_k=100 of the scenario methods' _compute_similarity calls
RankWindow == 100

\* how many records the large corpus has beyond the ranking window
MaxBeyond == 2

\* A corpus larger than the window of 100 that the scenario methods rank:
\* records N1, N2, ... of class F16C, except the first and the third, which
\* are of class B60C.
LargeRecord(i) ==
    Patent("N" \o Decimal(i), "bearing", "a bearing", "Desc", <<"1. a bearing">>,
           IF i \in {1, 3} THEN "B60C" ELSE "F16C", "2019-01-01")
LargeCorpus == [i \in 1..(RankWindow + MaxBeyond) |-> LargeRecord(i)]

\* doc_number uniquely identifies a record within a loaded corpus
UniqueDocNumbers(ps) ==
    \A i, j \in DOMAIN ps : ps[i].doc_number = ps[j].doc_number => i = j

\* a corpus: 1..MaxRecords records of the pool, in file order
Corpora ==
    LET Picks == UNION {[1..n -> DOMAIN RecordPool] : n \in 1..MaxRecords}
        Increasing(f) == \A i, j \in DOMAIN f : i < j => f[i] < f[j]
    IN  {[i \in DOMAIN f |-> RecordPool[f[i]]] : f \in {g \in Picks : Increasing(g)}}

\* {p["doc_number"]: i for i, p in enumerate(self.patents)}: the last wins
BuildDocIndex(ps) ==
    [d \in {ps[i].doc_number : i \in DOMAIN ps} |->
        CHOOSE i \in DOMAIN ps :
            /\ ps[i].doc_number = d
            /\ \A j \in DOMAIN ps : ps[j].doc_number = d => j <= i]

NoneRec == [none |-> TRUE]
NoResponse == [status |-> 0]

-----------------------------------------------------------------------------
(* The values the arguments of a call are drawn from *)

\* Field(ge=1, le=100) of top_k
TopKMin == 1
TopKMax == 100

ClassPrefixes == {"", "B60C", "b60"}
\* keywords and title_search of a request
TextFilters ==
    {[keywords |-> <<>>, title_search |-> ""],
     [keywords |-> <<"Sensor">>, title_search |-> ""],
     [keywords |-> <<>>, title_search |-> " tire"]}
KeywordLists == {t.keywords : t \in TextFilters}
TitleQueries == {t.title_search : t \in TextFilters}
TargetDates == {None, "2021-01-01", "2020-01-01"}
\* date_from and date_to of a request
DateRanges ==
    {[date_from |-> None, date_to |-> None],
     [date_from |-> "2020-01-01", date_to |-> None],
     [date_from |-> "2020-01-01", date_to |-> "2021-01-01"]}
DateFroms == {r.date_from : r \in DateRanges}
DateTos == {r.date_to : r \in DateRanges}
MinSimilarities == {0, 50000}
\* below the range, within it, above it
TopKs == (0..MaxTopK) \cup {TopKMax + 1}
MyDocNumbers == {"A", "US-A", "Z"}
\* date_from and date_to of a direct _filter_by_date call
DateBounds == {None, "", "2020-01-01", "2022-01-01"}
QueryDocNumbers == {"A", "B", "C", "US-A", "us-a", " a", "A-US", "Z", ""}

-----------------------------------------------------------------------------
(* get_patent_by_id *)

NormalizeQuery(doc_number) ==
    Replace(Replace(Replace(Upper(Strip(doc_number)), "US", ""), "-", ""), " ", "")

NormalizeRecord(doc_number) ==
    Replace(Replace(Replace(Upper(doc_number), "US", ""), "-", ""), " ", "")

\* the two normalisations, tabulated over the doc_numbers of the model
NormalizeQueryTable ==
    [d \in QueryDocNumbers \cup MyDocNumbers |-> NormalizeQuery(d)]
NormalizeRecordTable ==
    [d \in {RecordPool[i].doc_number : i \in DOMAIN RecordPool} |->
        NormalizeRecord(d)]

\* the linear scan: position of the first record that matches, 0 if none
NormalizedScan(doc_number) ==
    LET normalized == NormalizeQueryTable[doc_number]
        Hit(i) == \/ NormalizeRecordTable[patents[i].doc_number] = normalized
                  \/ patents[i].doc_number = doc_number
        hits == {i \in DOMAIN patents : Hit(i)}
    IN  IF hits = {} THEN 0
        ELSE CHOOSE i \in hits : \A j \in hits : i <= j

\* mutant: the exact lookup in _doc_index is skipped
get_patent_by_id_ScanOnly(doc_number) ==
    IF NormalizedScan(doc_number) = 0 THEN NoneRec
    ELSE patents[NormalizedScan(doc_number)]

get_patent_by_id(doc_number) ==
    IF doc_number \in DOMAIN _doc_index
    THEN patents[_doc_index[doc_number]]
    ELSE IF NormalizedScan(doc_number) = 0 THEN NoneRec
    ELSE patents[NormalizedScan(doc_number)]

-----------------------------------------------------------------------------
(* _compute_similarity *)

\* Values the cosine similarity of a query and a record may take (1e-5 units)
ScoreValues == {30000, 85000, 90004}

IndexOrders(n) ==
    {p \in [1..n -> 1..n] : \A i, j \in 1..n : p[i] = p[j] => i = j}
PermutationTable == [n \in 0..MaxRecords |-> IndexOrders(n)]

Reverse(seq) == [i \in 1..Len(seq) |-> seq[Len(seq) + 1 - i]]

\* np.argsort(similarities): the default kind is not stable, so any order of
\* equal scores is a possible outcome
ArgSort(sims) ==
    LET n == Len(sims)
        \* how many scores are below each score; the position of each rank
        Below[i \in 0..n] ==
            IF i = 0 THEN <<>>
            ELSE Append(Below[i - 1],
                        Cardinality({j \in 1..n : sims[j] < sims[i]}))
        below == Below[n]
        Order[r \in 0..n] ==
            IF r = 0 THEN <<>>
            ELSE Append(Order[r - 1], CHOOSE i \in 1..n : below[i] = r - 1)
    IN  IF \A i, j \in DOMAIN sims : sims[i] = sims[j] => i = j
        THEN {Order[n]}
        ELSE {p \in PermutationTable[Len(sims)] :
                \A i \in 1..(Len(sims) - 1) : sims[p[i]] <= sims[p[i + 1]]}

\* mutant: the argsort order is not reversed
_compute_similarity_Ascending(sims, top_k) ==
    {[k \in 1..Min(top_k, Len(sims)) |->
         [idx |-> order[k], score |-> sims[order[k]]]] :
     order \in ArgSort(sims)}

\* mutant: the whole ranking is returned
_compute_similarity_Unlimited(sims, top_k) ==
    {[k \in 1..Len(sims) |->
         [idx |-> Reverse(order)[k], score |-> sims[Reverse(order)[k]]]] :
     order \in ArgSort(sims)}

\* the outcomes of _compute_similarity for a query whose similarity to record
\* i is sims[i]
_compute_similarity(sims, top_k) ==
    {[k \in 1..Min(top_k, Len(sims)) |->
         [idx |-> Reverse(order)[k], score |-> sims[Reverse(order)[k]]]] :
     order \in ArgSort(sims)}

-----------------------------------------------------------------------------
(* Assessment *)

RiskVeryHighAbove == 90000
RiskHighFrom == 70000
RiskMediumFrom == 50000

\* mutant: 0.9 itself is "Very High"
_calculate_risk_level_Inclusive(similarity) ==
    IF similarity >= RiskVeryHighAbove THEN "Very High"
    ELSE IF similarity >= RiskHighFrom THEN "High"
    ELSE IF similarity >= RiskMediumFrom THEN "Medium"
    ELSE "Low"

_calculate_risk_level(similarity) ==
    IF similarity > RiskVeryHighAbove THEN "Very High"
    ELSE IF similarity >= RiskHighFrom THEN "High"
    ELSE IF similarity >= RiskMediumFrom THEN "Medium"
    ELSE "Low"

NoveltyIdenticalAbove == 85000
NoveltySimilarFrom == 60000

_assess_novelty(similarity) ==
    IF similarity > NoveltyIdenticalAbove THEN "Identical"
    ELSE IF similarity >= NoveltySimilarFrom THEN "Similar"
    ELSE "Novel"

\* round(score, 4): to the nearest multiple of 1e-4, a tie to the even one
Round4(score) ==
    LET q == score \div 10
        r == score % 10
    IN  IF r < 5 THEN q * 10
        ELSE IF r > 5 THEN (q + 1) * 10
        ELSE IF q % 2 = 0 THEN q * 10 ELSE (q + 1) * 10

-----------------------------------------------------------------------------
(* Filters *)

\* Python truth value of an Optional[str]
Truthy(x) == x # None /\ x # ""

PoolRecords ==
    {RecordPool[i] : i \in DOMAIN RecordPool}
        \cup {LargeCorpus[i] : i \in DOMAIN LargeCorpus}

\* self.patents[idx].get("classification", "").upper().startswith(prefix_upper)
ClassificationHit(patent, prefix) ==
    StartsWith(Upper(patent.classification), Upper(prefix))

\* mutant: date_to is taken as the lower bound
DateHit_Reversed(patent, date_from, date_to) ==
    LET pub_date == patent.publication_date
    IN  /\ pub_date # ""
        /\ ~(Truthy(date_from) /\ StrLess(pub_date, date_from))
        /\ ~(Truthy(date_to) /\ StrLess(pub_date, date_to))

\* mutant: a record published on a bound is dropped
DateHit_Exclusive(patent, date_from, date_to) ==
    LET pub_date == patent.publication_date
    IN  /\ pub_date # ""
        /\ ~(Truthy(date_from) /\ ~StrLess(date_from, pub_date))
        /\ ~(Truthy(date_to) /\ ~StrLess(pub_date, date_to))

\* the body of the date filter's loop: FALSE where the code says "continue"
DateHit(patent, date_from, date_to) ==
    LET pub_date == patent.publication_date
    IN  /\ pub_date # ""
        /\ ~(Truthy(date_from) /\ StrLess(pub_date, date_from))
        /\ ~(Truthy(date_to) /\ StrLess(date_to, pub_date))

SearchableText(patent) ==
    Lower(patent.title \o " " \o patent.abstract \o " "
          \o Join(patent.claims, " "))

\* all(kw.lower() in searchable_text for kw in keywords)
KeywordsHit(patent, keywords) ==
    \A k \in DOMAIN keywords :
        Contains(SearchableText(patent), Lower(keywords[k]))

\* title_query_lower in self.patents[idx].get("title", "").lower()
TitleHit(patent, title_query) ==
    Contains(Lower(patent.title), Strip(Lower(title_query)))

\* The four tests, tabulated over the records and criteria of the model
ClassificationHitTable ==
    [p \in PoolRecords, x \in ClassPrefixes |-> ClassificationHit(p, x)]
DateHitTable ==
    [p \in PoolRecords, f \in DateFroms \cup DateBounds,
     t \in DateTos \cup TargetDates \cup DateBounds |-> DateHit(p, f, t)]
KeywordsHitTable ==
    [p \in PoolRecords, k \in KeywordLists |-> KeywordsHit(p, k)]
TitleHitTable ==
    [p \in PoolRecords, q \in TitleQueries |-> TitleHit(p, q)]

_filter_by_classification(cands, prefix) ==
    IF prefix = "" THEN cands
    ELSE LET Keep(c) == ClassificationHitTable[patents[c.idx], prefix]
         IN  SelectSeq(cands, Keep)

_filter_by_date(cands, date_from, date_to) ==
    IF ~Truthy(date_from) /\ ~Truthy(date_to) THEN cands
    ELSE LET Keep(c) == DateHitTable[patents[c.idx], date_from, date_to]
         IN  SelectSeq(cands, Keep)

\* mutant: only the first candidate that has the keywords is kept
_filter_by_keywords_FirstHit(cands, keywords) ==
    IF keywords = <<>> THEN cands
    ELSE LET Keep(c) == KeywordsHitTable[patents[c.idx], keywords]
         IN  Take(SelectSeq(cands, Keep), 1)

_filter_by_keywords(cands, keywords) ==
    IF keywords = <<>> THEN cands
    ELSE LET Keep(c) == KeywordsHitTable[patents[c.idx], keywords]
         IN  SelectSeq(cands, Keep)

\* mutant: the matching candidates are returned last first
_filter_by_title_Reversed(cands, title_query) ==
    IF title_query = "" THEN cands
    ELSE LET Keep(c) == TitleHitTable[patents[c.idx], title_query]
         IN  Reverse(SelectSeq(cands, Keep))

_filter_by_title(cands, title_query) ==
    IF title_query = "" THEN cands
    ELSE LET Keep(c) == TitleHitTable[patents[c.idx], title_query]
         IN  SelectSeq(cands, Keep)

-----------------------------------------------------------------------------
(* Result objects.  The annotations computed from claim text                *)
(* (matched_claims, independent_claims, overlapping_features,               *)
(* key_differences, technical_field) do not enter any decision of the       *)
(* search and are left out of the result records.                           *)

AllClaimsCap == 10
DescriptionCap == 500

\* mutant: the claims and the description are copied whole
BaseResult_Uncapped(c) ==
    LET patent == patents[c.idx]
    IN  [doc_number |-> patent.doc_number,
         title |-> patent.title,
         abstract |-> patent.abstract,
         classification |-> patent.classification,
         publication_date |-> patent.publication_date,
         similarity_score |-> Round4(c.score),
         all_claims |-> patent.claims,
         detailed_description |-> patent.detailed_description]

BaseResult(c) ==
    LET patent == patents[c.idx]
    IN  [doc_number |-> patent.doc_number,
         title |-> patent.title,
         abstract |-> patent.abstract,
         classification |-> patent.classification,
         publication_date |-> patent.publication_date,
         similarity_score |-> Round4(c.score),
         all_claims |-> Take(patent.claims, AllClaimsCap),
         detailed_description |-> Take(patent.detailed_description, DescriptionCap)]

InvalidityResult(c) ==
    BaseResult(c) @@ [claims_count |-> Len(patents[c.idx].claims)]

InfringementResult(c) ==
    BaseResult(c) @@ [risk_level |-> _calculate_risk_level(c.score)]

\* mutant: the flag is set on the second result
PatentabilityResult_Second(c, i) ==
    BaseResult(c) @@ [novelty_assessment |-> _assess_novelty(c.score),
                      closest_prior_art |-> (i = 2)]

PatentabilityResult(c, i) ==
    BaseResult(c) @@ [novelty_assessment |-> _assess_novelty(c.score),
                      closest_prior_art |-> (i = 1)]

PatentIdSearchResult(c) == BaseResult(c)

-----------------------------------------------------------------------------
(* Scenario methods.  `ranked` is what _compute_similarity(query, 100)      *)
(* returned; each operator gives the candidate list the result loop ran     *)
(* over and the results it built.                                           *)

invalidity_search(ranked, req) ==
    LET c1 == _filter_by_classification(ranked, req.classification)
        c2 == _filter_by_keywords(c1, req.keywords)
        c3 == _filter_by_title(c2, req.title_search)
        c4 == IF Truthy(req.target_date)
              THEN _filter_by_date(c3, None, req.target_date) ELSE c3
        window == Take(c4, req.top_k)
    IN  [candidates |-> window,
         results |-> [i \in DOMAIN window |-> InvalidityResult(window[i])]]

\* mutant: the caller's own patent is not skipped
SkipOwnPatent_Never(window, my_doc_number) == window

\* the loop's "continue" on the caller's own patent
SkipOwnPatent(window, my_doc_number) ==
    LET Keep(c) == patents[c.idx].doc_number # my_doc_number
    IN  SelectSeq(window, Keep)

\* mutant: the caller's own patent is removed before the truncation
infringement_search_OwnRemovedFirst(ranked, req) ==
    LET c1 == _filter_by_classification(ranked, req.classification)
        c2 == _filter_by_date(c1, req.date_from, req.date_to)
        c3 == _filter_by_keywords(c2, req.keywords)
        c4 == _filter_by_title(c3, req.title_search)
        Floor(c) == c.score >= req.min_similarity
        c5 == SelectSeq(c4, Floor)
        window == Take(SkipOwnPatent(c5, req.my_doc_number), req.top_k)
    IN  [candidates |-> window,
         results |-> [i \in DOMAIN window |-> InfringementResult(window[i])]]

infringement_search(ranked, req) ==
    LET c1 == _filter_by_classification(ranked, req.classification)
        c2 == _filter_by_date(c1, req.date_from, req.date_to)
        c3 == _filter_by_keywords(c2, req.keywords)
        c4 == _filter_by_title(c3, req.title_search)
        Floor(c) == c.score >= req.min_similarity
        c5 == SelectSeq(c4, Floor)
        window == Take(c5, req.top_k)
        built == SkipOwnPatent(window, req.my_doc_number)
    IN  [candidates |-> window,
         results |-> [i \in DOMAIN built |-> InfringementResult(built[i])]]

patentability_search(ranked, req) ==
    LET c1 == _filter_by_classification(ranked, req.classification)
        c2 == _filter_by_keywords(c1, req.keywords)
        c3 == _filter_by_title(c2, req.title_search)
        window == Take(c3, req.top_k)
    IN  [candidates |-> window,
         results |-> [i \in DOMAIN window |-> PatentabilityResult(window[i], i)]]

\* mutant: the source record is not excluded
ExcludeSource_Never(cands, source) == cands

\* the part of search_by_patent_id after the source record has been found
ExcludeSource(cands, source) ==
    LET source_idx == _doc_index[source.doc_number]
        Keep(c) == c.idx # source_idx
    IN  SelectSeq(cands, Keep)

search_by_patent_id(ranked, source, req) ==
    LET c1 == _filter_by_classification(ranked, req.classification)
        c2 == ExcludeSource(c1, source)
        window == Take(c2, req.top_k)
    IN  [candidates |-> window,
         results |-> [i \in DOMAIN window |-> PatentIdSearchResult(window[i])]]


-----------------------------------------------------------------------------
(* Request models (backend/models.py) and the values requests are drawn from *)

\* mutant: top_k has no upper limit
ValidTopK_NoUpperLimit(k) == k >= TopKMin

ValidTopK(k) == k >= TopKMin /\ k <= TopKMax
\* Field(..., min_length=1)
ValidDocNumber(d) == Len(d) >= 1

InvalidityRequests ==
    {[classification |-> c, target_date |-> d, top_k |-> k] @@ t :
        c \in {"", "B60C"}, d \in TargetDates, k \in TopKs, t \in TextFilters}

InfringementRequests ==
    {[my_doc_number |-> d, classification |-> c, min_similarity |-> m,
      top_k |-> k] @@ t @@ r :
        d \in MyDocNumbers, c \in {"", "b60"}, m \in MinSimilarities,
        k \in TopKs, t \in TextFilters, r \in DateRanges}

PatentabilityRequests ==
    {[classification |-> c, top_k |-> k] @@ t :
        c \in {"", "B60C"}, k \in TopKs, t \in TextFilters}

PatentIdRequests ==
    [doc_number : QueryDocNumbers, classification : {"", "b60"}, top_k : TopKs]

-----------------------------------------------------------------------------
(* The engine object and its embeddings *)

\* the text of a record that is embedded
EmbeddingText(patent) ==
    patent.title \o " " \o patent.abstract \o " "
        \o Join(Take(patent.claims, 3), " ")

\* model.encode(texts): one vector per text, a function of the text alone
Encode(texts) == [i \in DOMAIN texts |-> [vector_of |-> texts[i]]]

\* the combined texts of a corpus, in corpus order
CombinedTexts(ps) == [i \in DOMAIN ps |-> EmbeddingText(ps[i])]

\* the text of the query of a scenario call
QueryText == "query"

\* np.dot(self.embeddings, query_embedding) / ...: one similarity per row
SimilarityVectors == [DOMAIN embeddings -> ScoreValues]

Self ==
    [patents |-> patents, _doc_index |-> _doc_index, embeddings |-> embeddings,
     model |-> model]

\* the fields of the engine after a method has run
Becomes(self) ==
    /\ patents' = self.patents
    /\ _doc_index' = self._doc_index
    /\ embeddings' = self.embeddings
    /\ model' = self.model

\* mutant: a freshly loaded model invalidates the embeddings
_load_model_DropsEmbeddings(self) ==
    IF self.model = None
    THEN [self EXCEPT !.model = "loaded", !.embeddings = <<>>]
    ELSE self

\* mutant: a loaded model is replaced by a newly loaded one
_load_model_Reloads(self) ==
    [self EXCEPT !.model = IF self.model = None THEN "loaded" ELSE "reloaded"]

\* self._load_model(), the load succeeding; "loaded" is the instance the
\* first load created
_load_model(self) ==
    IF self.model = None THEN [self EXCEPT !.model = "loaded"] ELSE self

-----------------------------------------------------------------------------
(* Responses of the routers *)

ValidationError == [status |-> 422]

SearchResponse(rs) ==
    [status |-> 200, success |-> TRUE, total |-> Len(rs), results |-> rs]

SourcePatentInfo(source) ==
    [doc_number |-> source.doc_number,
     title |-> source.title,
     abstract |-> source.abstract,
     classification |-> source.classification,
     publication_date |-> source.publication_date,
     claims |-> Take(source.claims, AllClaimsCap)]

\* mutant: a missing source is answered like an empty result list
PatentIdNotFound_AsSuccess ==
    [status |-> 200, success |-> TRUE, source_patent |-> NoneRec,
     total |-> 0, results |-> <<>>]

PatentIdNotFound ==
    [status |-> 200, success |-> FALSE, source_patent |-> NoneRec,
     total |-> 0, results |-> <<>>]

PatentIdSearchResponse(source, rs) ==
    [status |-> 200, success |-> TRUE, source_patent |-> SourcePatentInfo(source),
     total |-> Len(rs), results |-> rs]

-----------------------------------------------------------------------------
(* The state machine: an engine in use *)

Engine == <<patents, _doc_index, embeddings>>
Risk == <<risk_in, risk_out>>
Process == <<_engine, heap, threads>>
Cleaning == <<records, unique_records, duplicate_count, duplicate_doc_numbers>>
\* what no method of a constructed engine touches
Outside == <<files, failed_loads, Process, Cleaning, Risk>>

\* a data file holding the corpus ps
ListFile(ps) == [kind |-> "list", value |-> ps]
\* an embeddings file holding rows; no embeddings file
IndexFile(rows) == [exists |-> TRUE, rows |-> rows]
NoFile == [exists |-> FALSE]

NoCall ==
    /\ pc = "idle"
    /\ op = None
    /\ request = NoneRec
    /\ candidates = <<>>
    /\ results = <<>>
    /\ source_patent = NoneRec
    /\ response = NoResponse
    /\ work = <<>>
    /\ raised = None

NoProcess == _engine = NoneRec /\ heap = <<>> /\ threads = <<>>
NoCleaning ==
    /\ records = <<>>
    /\ unique_records = <<>>
    /\ duplicate_count = 0
    /\ duplicate_doc_numbers = <<>>
NoRisk == risk_in = 0 /\ risk_out = None

\* an engine constructed from a data file whose embeddings file exists
Init ==
    /\ patents \in Corpora
    /\ _doc_index = BuildDocIndex(patents)
    /\ embeddings = Encode(CombinedTexts(patents))
    /\ model = None
    /\ files = [data |-> ListFile(patents), index |-> IndexFile(embeddings)]
    /\ failed_loads = 0
    /\ NoCall
    /\ NoProcess
    /\ NoCleaning
    /\ NoRisk

\* a direct call of engine._compute_similarity(query, limit); the query is
\* recorded as its similarity to each record
ComputeSimilarity ==
    /\ pc = "idle"
    /\ \E limit \in 1..MaxLimit, sims \in SimilarityVectors :
         \E ranked \in _compute_similarity(sims, limit) :
            /\ request' = [query |-> sims, top_k |-> limit]
            /\ candidates' = ranked
    /\ op' = "rank"
    /\ pc' = "done"
    /\ Becomes(_load_model(Self))
    /\ work' = <<(<<QueryText>>)>>
    /\ raised' = None
    /\ UNCHANGED <<Outside, results, source_patent, response>>

\* a direct call of engine.get_patent_by_id(doc_number)
GetPatentById ==
    /\ pc = "idle"
    /\ \E d \in QueryDocNumbers :
         /\ request' = [doc_number |-> d]
         /\ source_patent' = get_patent_by_id(d)
    /\ op' = "get_by_id"
    /\ pc' = "done"
    /\ UNCHANGED <<Outside, Engine, model, candidates, results, response, work,
                   raised>>

\* the request does not pass the validation of its request model
Rejected ==
    /\ response' = ValidationError
    /\ candidates' = <<>>
    /\ results' = <<>>
    /\ work' = <<>>
    /\ raised' = None
    /\ UNCHANGED <<Engine, model>>

\* the engine method ranked the corpus and returned `out`
Ranked(out) ==
    /\ candidates' = out.candidates
    /\ results' = out.results
    /\ Becomes(_load_model(Self))
    /\ work' = <<(<<QueryText>>)>>
    /\ raised' = None

\* POST /api/search/invalidity
InvalidityEndpoint ==
    /\ pc = "idle"
    /\ \E req \in InvalidityRequests :
         /\ request' = req
         /\ \/ ~ValidTopK(req.top_k) /\ Rejected
            \/ /\ ValidTopK(req.top_k)
               /\ \E sims \in SimilarityVectors :
                    \E ranked \in _compute_similarity(sims, RankWindow) :
                       LET out == invalidity_search(ranked, req)
                       IN  /\ Ranked(out)
                           /\ response' = SearchResponse(out.results)
    /\ op' = "invalidity"
    /\ pc' = "done"
    /\ UNCHANGED <<Outside, source_patent>>

\* POST /api/search/infringement
InfringementEndpoint ==
    /\ pc = "idle"
    /\ \E req \in InfringementRequests :
         /\ request' = req
         /\ \/ ~ValidTopK(req.top_k) /\ Rejected
            \/ /\ ValidTopK(req.top_k)
               /\ \E sims \in SimilarityVectors :
                    \E ranked \in _compute_similarity(sims, RankWindow) :
                       LET out == infringement_search(ranked, req)
                       IN  /\ Ranked(out)
                           /\ response' = SearchResponse(out.results)
    /\ op' = "infringement"
    /\ pc' = "done"
    /\ UNCHANGED <<Outside, source_patent>>

\* POST /api/search/patentability
PatentabilityEndpoint ==
    /\ pc = "idle"
    /\ \E req \in PatentabilityRequests :
         /\ request' = req
         /\ \/ ~ValidTopK(req.top_k) /\ Rejected
            \/ /\ ValidTopK(req.top_k)
               /\ \E sims \in SimilarityVectors :
                    \E ranked \in _compute_similarity(sims, RankWindow) :
                       LET out == patentability_search(ranked, req)
                       IN  /\ Ranked(out)
                           /\ response' = SearchResponse(out.results)
    /\ op' = "patentability"
    /\ pc' = "done"
    /\ UNCHANGED <<Outside, source_patent>>

\* POST /api/search/by-patent-id
PatentIdEndpoint ==
    /\ pc = "idle"
    /\ \E req \in PatentIdRequests :
         /\ request' = req
         /\ \/ /\ ~(ValidTopK(req.top_k) /\ ValidDocNumber(req.doc_number))
               /\ Rejected
               /\ UNCHANGED source_patent
            \/ /\ ValidTopK(req.top_k) /\ ValidDocNumber(req.doc_number)
               /\ get_patent_by_id(req.doc_number) = NoneRec
               /\ source_patent' = NoneRec
               /\ candidates' = <<>>
               /\ results' = <<>>
               /\ response' = PatentIdNotFound
               /\ work' = <<>>
               /\ raised' = None
               /\ UNCHANGED <<Engine, model>>
            \/ /\ ValidTopK(req.top_k) /\ ValidDocNumber(req.doc_number)
               /\ get_patent_by_id(req.doc_number) # NoneRec
               /\ \E sims \in SimilarityVectors :
                    \E ranked \in _compute_similarity(sims, RankWindow) :
                       LET source == get_patent_by_id(req.doc_number)
                           out == search_by_patent_id(ranked, source, req)
                       IN  /\ source_patent' = source
                           /\ Ranked(out)
                           /\ response' = PatentIdSearchResponse(source, out.results)
    /\ op' = "patent_id"
    /\ pc' = "done"
    /\ UNCHANGED Outside

\* the call has been answered; its result objects are discarded
Return ==
    /\ pc = "done"
    /\ pc' = "idle"
    /\ op' = None
    /\ request' = NoneRec
    /\ candidates' = <<>>
    /\ results' = <<>>
    /\ source_patent' = NoneRec
    /\ response' = NoResponse
    /\ work' = <<>>
    /\ raised' = None
    /\ UNCHANGED <<Outside, Engine, model>>

Next ==
    \/ ComputeSimilarity
    \/ GetPatentById
    \/ InvalidityEndpoint
    \/ InfringementEndpoint
    \/ PatentabilityEndpoint
    \/ PatentIdEndpoint
    \/ Return

Spec == Init /\ [][Next]_vars

-----------------------------------------------------------------------------
(* _calculate_risk_level on its own: the similarity is drawn at the start   *)

RiskInputs ==
    {1000 * i : i \in -10..100}
        \cup {49999, 50001, 69999, 70001, 89999, 90001, 90004}

InitRisk ==
    /\ patents = <<RecA>>
    /\ _doc_index = BuildDocIndex(patents)
    /\ embeddings = Encode(CombinedTexts(patents))
    /\ model = None
    /\ files = [data |-> ListFile(patents), index |-> IndexFile(embeddings)]
    /\ failed_loads = 0
    /\ NoCall
    /\ NoProcess
    /\ NoCleaning
    /\ risk_in \in RiskInputs
    /\ risk_out = None

CalculateRiskLevel ==
    /\ pc = "idle"
    /\ risk_out' = _calculate_risk_level(risk_in)
    /\ op' = "risk"
    /\ pc' = "done"
    /\ UNCHANGED <<Engine, model, request, candidates, results, source_patent,
                   response, work, raised, risk_in, files, failed_loads,
                   Process, Cleaning>>

NextRisk == CalculateRiskLevel

SpecRisk == InitRisk /\ [][NextRisk]_vars

-----------------------------------------------------------------------------
(* Construction of an engine: PatentSearchEngine(data_path)                 *)

MaxFailedLoads == 2

\* what the data file may hold: nothing, text that is not JSON, a JSON value
\* that is not an array (null, an object without or with members), a corpus
Missing == [kind |-> "missing"]
Malformed == [kind |-> "malformed"]
Null == [kind |-> "null"]
EmptyObject == [kind |-> "object", keys |-> <<>>]
Object == [kind |-> "object", keys |-> <<"patents">>]
DataFiles ==
    {Missing, Malformed, Null, EmptyObject, Object}
        \cup {ListFile(ps) : ps \in Corpora}

\* the embeddings file: absent, or written by an earlier run for the corpus
\* the data file held then
IndexFiles == {NoFile} \cup {IndexFile(Encode(CombinedTexts(ps))) : ps \in Corpora}

\* the exceptions of json.load and of the statements after it
CorpusLoadErrors == {"FileNotFoundError", "JSONDecodeError", "TypeError"}
ModelLoadError == "OSError"

NoEngine ==
    [patents |-> <<>>, _doc_index |-> <<>>, embeddings |-> <<>>, model |-> None]

\* the outcome of a step of __init__: the object so far, the files, the
\* batches encoded, the exception raised
Outcome(self, fs, batches, exc) ==
    [self |-> self, files |-> fs, work |-> batches, raised |-> exc]

\* open() and json.load() raise; len(None) raises; iterating an object gives
\* its keys, and p["doc_number"] raises on a key; an object without members
\* is iterated zero times
_load_data(self, fs) ==
    LET data == fs.data
        Loaded(ps) ==
            Outcome([self EXCEPT !.patents = ps, !._doc_index = BuildDocIndex(ps)],
                    fs, <<>>, None)
    IN  IF data.kind = "missing" THEN Outcome(self, fs, <<>>, "FileNotFoundError")
        ELSE IF data.kind = "malformed"
             THEN Outcome(self, fs, <<>>, "JSONDecodeError")
        ELSE IF data.kind = "null" THEN Outcome(self, fs, <<>>, "TypeError")
        ELSE IF data.kind = "object"
             THEN IF data.keys = <<>> THEN Loaded(<<>>)
                  ELSE Outcome(self, fs, <<>>, "TypeError")
        ELSE Loaded(data.value)

\* mutant: the embeddings are not saved
_build_embeddings_NotSaved(self, fs, load_ok) ==
    IF ~load_ok THEN Outcome(self, fs, <<>>, ModelLoadError)
    ELSE LET texts == CombinedTexts(self.patents)
         IN  Outcome([self EXCEPT !.model = "loaded", !.embeddings = Encode(texts)],
                     fs, <<texts>>, None)

\* load_ok: whether SentenceTransformer(...) returns a model
_build_embeddings(self, fs, load_ok) ==
    IF ~load_ok THEN Outcome(self, fs, <<>>, ModelLoadError)
    ELSE LET texts == CombinedTexts(self.patents)
             rows == Encode(texts)
         IN  Outcome([self EXCEPT !.model = "loaded", !.embeddings = rows],
                     [fs EXCEPT !.index = IndexFile(rows)], <<texts>>, None)

_load_or_build_embeddings(self, fs, load_ok) ==
    IF fs.index.exists
    THEN Outcome([self EXCEPT !.embeddings = fs.index.rows], fs, <<>>, None)
    ELSE _build_embeddings(self, fs, load_ok)

\* PatentSearchEngine.__init__
__init__(fs, load_ok) ==
    LET loaded == _load_data(NoEngine, fs)
    IN  IF loaded.raised # None THEN loaded
        ELSE _load_or_build_embeddings(loaded.self, fs, load_ok)

\* a process that has not constructed its engine, and the two files
InitBuild ==
    /\ files \in [data : DataFiles, index : IndexFiles]
    /\ patents = NoEngine.patents
    /\ _doc_index = NoEngine._doc_index
    /\ embeddings = NoEngine.embeddings
    /\ model = NoEngine.model
    /\ failed_loads = 0
    /\ NoCall
    /\ NoProcess
    /\ NoCleaning
    /\ NoRisk

\* engine = PatentSearchEngine(data_file); an exception leaves no engine
Construct ==
    /\ pc = "idle"
    /\ \E load_ok \in BOOLEAN :
         LET out == __init__(files, load_ok)
             load_failed == out.raised = ModelLoadError
         IN  /\ load_failed => failed_loads < MaxFailedLoads
             /\ Becomes(IF out.raised = None THEN out.self ELSE NoEngine)
             /\ files' = out.files
             /\ work' = out.work
             /\ raised' = out.raised
             /\ failed_loads' = IF load_failed THEN failed_loads + 1
                                ELSE failed_loads
    /\ request' = [index_existed |-> files.index.exists]
    /\ op' = "construct"
    /\ pc' = "done"
    /\ UNCHANGED <<candidates, results, source_patent, response, Process,
                   Cleaning, Risk>>

\* the process ends and a new one starts; the files stay
Restart ==
    /\ pc = "done"
    /\ Becomes(NoEngine)
    /\ pc' = "idle"
    /\ op' = None
    /\ request' = NoneRec
    /\ work' = <<>>
    /\ raised' = None
    /\ UNCHANGED <<candidates, results, source_patent, response, files,
                   failed_loads, Process, Cleaning, Risk>>

NextBuild ==
    \/ Construct
    \/ Restart

SpecBuild == InitBuild /\ [][NextBuild]_vars

-----------------------------------------------------------------------------
(* Concurrent first requests: dependencies.get_engine                       *)
(* get_engine is a plain function, so the framework runs it on a worker     *)
(* thread for each request; the handlers are coroutines without an await    *)
(* and run one at a time on the event loop.                                 *)

MaxRequests == 3

Requests == 1..MaxRequests

\* a reference to the engine object heap[n]
Ref(n) == [id |-> n]

InitConcurrent ==
    /\ files \in [data : {ListFile(<<RecA, RecB>>)},
                  index : {NoFile, IndexFile(Encode(CombinedTexts(<<RecA, RecB>>)))}]
    /\ _engine = NoneRec
    /\ heap = <<>>
    /\ threads = [t \in Requests |-> [pc |-> "request", engine |-> NoneRec]]
    /\ patents = NoEngine.patents
    /\ _doc_index = NoEngine._doc_index
    /\ embeddings = NoEngine.embeddings
    /\ model = NoEngine.model
    /\ failed_loads = 0
    /\ NoCall
    /\ NoCleaning
    /\ NoRisk

Quiet ==
    UNCHANGED <<Engine, model, pc, op, request, candidates, results,
                source_patent, response, work, raised, failed_loads, Cleaning,
                Risk>>

\* if _engine is None:
CheckEngine(t) ==
    /\ threads[t].pc = "request"
    /\ threads' = [threads EXCEPT ![t].pc =
                      IF _engine = NoneRec THEN "construct" ELSE "return"]
    /\ UNCHANGED <<_engine, heap, files>>
    /\ Quiet

\* _engine = PatentSearchEngine(data_file)
ConstructEngine(t) ==
    /\ threads[t].pc = "construct"
    /\ LET out == __init__(files, TRUE)
       IN  /\ heap' = Append(heap, out.self)
           /\ files' = out.files
    /\ _engine' = Ref(Len(heap) + 1)
    /\ threads' = [threads EXCEPT ![t].pc = "return"]
    /\ Quiet

\* return _engine
ReturnEngine(t) ==
    /\ threads[t].pc = "return"
    /\ threads' = [threads EXCEPT ![t].pc = "handler", ![t].engine = _engine]
    /\ UNCHANGED <<_engine, heap, files>>
    /\ Quiet

\* the handler calls a scenario method of its engine, which loads the model
\* of that engine if it has none
Handler(t) ==
    /\ threads[t].pc = "handler"
    /\ heap' = [heap EXCEPT ![threads[t].engine.id] = _load_model(@)]
    /\ threads' = [threads EXCEPT ![t].pc = "done"]
    /\ UNCHANGED <<_engine, files>>
    /\ Quiet

NextConcurrent ==
    \E t \in Requests :
        \/ CheckEngine(t)
        \/ ConstructEngine(t)
        \/ ReturnEngine(t)
        \/ Handler(t)

SpecConcurrent == InitConcurrent /\ [][NextConcurrent]_vars

-----------------------------------------------------------------------------
(* Scenario calls that raise: the model may fail to load, and an embeddings *)
(* file with more rows than the corpus has records makes the ranking return *)
(* positions that self.patents[idx] rejects.                                *)

IndexError == "list index out of range"

Scenarios == {"invalidity", "infringement", "patentability", "patent_id"}

\* requests that pass validation, without keyword, title or date criteria
PlainRequests(reqs) ==
    {r \in reqs :
        /\ ValidTopK(r.top_k)
        /\ "keywords" \in DOMAIN r => (r.keywords = <<>> /\ r.title_search = "")
        /\ "target_date" \in DOMAIN r => r.target_date = None
        /\ "date_from" \in DOMAIN r => (r.date_from = None /\ r.date_to = None)
        /\ "doc_number" \in DOMAIN r => ValidDocNumber(r.doc_number)}

\* self.patents[idx] raises IndexError
Stray(c) == c.idx \notin DOMAIN patents

\* position of the first candidate without a record, 0 if there is none
FirstStray(cands) ==
    LET strays == {i \in DOMAIN cands : Stray(cands[i])}
    IN  IF strays = {} THEN 0 ELSE CHOOSE i \in strays : \A j \in strays : i <= j

Returned(out) ==
    [raised |-> None, candidates |-> out.candidates, results |-> out.results]
\* the exception, the list being worked on, the results appended so far
Raising(exc, cands, partial) ==
    [raised |-> exc, candidates |-> cands, results |-> partial]

\* the candidates the result loop gets through before it raises
Served(loop) == SubSeq(loop, 1, FirstStray(loop) - 1)

\* A scenario method on a ranking that may hold strays.  touches says whether
\* a filter that reads records is active, loop is the list the result loop
\* runs over when none is, whole is the method's outcome on candidates that
\* all have records and part its results for Served(loop).  The first
\* active filter reads the record of every candidate; the loop reads them in
\* order and appends a result for each.
Attempt(ranked, touches, loop, whole, part) ==
    IF touches /\ FirstStray(ranked) # 0 THEN Raising(IndexError, ranked, <<>>)
    ELSE IF FirstStray(loop) = 0 THEN Returned(whole)
    ELSE Raising(IndexError, loop, part)

invalidity_attempt(ranked, req) ==
    LET loop == Take(ranked, req.top_k)
    IN  Attempt(ranked,
                \/ req.classification # ""
                \/ req.keywords # <<>>
                \/ req.title_search # ""
                \/ Truthy(req.target_date),
                loop,
                invalidity_search(ranked, req),
                invalidity_search(Served(loop), req).results)

infringement_attempt(ranked, req) ==
    LET Floor(c) == c.score >= req.min_similarity
        loop == Take(SelectSeq(ranked, Floor), req.top_k)
    IN  Attempt(ranked,
                \/ req.classification # ""
                \/ Truthy(req.date_from) \/ Truthy(req.date_to)
                \/ req.keywords # <<>>
                \/ req.title_search # "",
                loop,
                infringement_search(ranked, req),
                infringement_search(Served(loop), req).results)

patentability_attempt(ranked, req) ==
    LET loop == Take(ranked, req.top_k)
    IN  Attempt(ranked,
                \/ req.classification # ""
                \/ req.keywords # <<>>
                \/ req.title_search # "",
                loop,
                patentability_search(ranked, req),
                patentability_search(Served(loop), req).results)

patent_id_attempt(ranked, source, req) ==
    LET NotSource(c) == c.idx # _doc_index[source.doc_number]
        loop == Take(SelectSeq(ranked, NotSource), req.top_k)
    IN  Attempt(ranked, req.classification # "", loop,
                search_by_patent_id(ranked, source, req),
                search_by_patent_id(Served(loop), source, req).results)

\* mutant: the results built before the exception are returned
HandlerResponse_Partial(out, success) ==
    IF out.raised = None THEN success ELSE SearchResponse(out.results)

\* try: ... return success; except Exception as e: raise HTTPException(500, str(e))
HandlerResponse(out, success) ==
    IF out.raised = None THEN success
    ELSE [status |-> 500, detail |-> out.raised]

\* the embeddings file left by a corpus that had one record more
StaleRows(ps) ==
    IF Len(ps) + 1 < MaxRecords
    THEN {Encode(CombinedTexts(Append(ps, RecC)))}
    ELSE {}

\* an engine constructed from a data file and an embeddings file that has
\* one row per record, or the rows of a corpus that had one record more
InitFaults ==
    /\ patents \in {c \in Corpora : Len(c) < MaxRecords}
    /\ _doc_index = BuildDocIndex(patents)
    /\ embeddings \in {Encode(CombinedTexts(patents))} \cup StaleRows(patents)
    /\ model = None
    /\ files = [data |-> ListFile(patents), index |-> IndexFile(embeddings)]
    /\ failed_loads = 0
    /\ NoCall
    /\ NoProcess
    /\ NoCleaning
    /\ NoRisk

\* self._load_model() raises: the handler answers, self.model stays None
LoadFails ==
    /\ model = None
    /\ failed_loads < MaxFailedLoads
    /\ failed_loads' = failed_loads + 1
    /\ raised' = ModelLoadError
    /\ candidates' = <<>>
    /\ results' = <<>>
    /\ work' = <<>>
    /\ response' = HandlerResponse(Raising(ModelLoadError, <<>>, <<>>), NoResponse)
    /\ UNCHANGED <<Engine, model>>

\* the model is there or loads; the method ended as `out` says
Ends(out, success) ==
    /\ candidates' = out.candidates
    /\ results' = out.results
    /\ raised' = out.raised
    /\ response' = HandlerResponse(out, success)
    /\ Becomes(_load_model(Self))
    /\ work' = <<(<<QueryText>>)>>
    /\ UNCHANGED failed_loads

ServeInvalidity ==
    /\ pc = "idle"
    /\ \E req \in PlainRequests(InvalidityRequests) :
         /\ request' = req
         /\ \/ LoadFails
            \/ \E sims \in SimilarityVectors :
                 \E ranked \in _compute_similarity(sims, RankWindow) :
                    LET out == invalidity_attempt(ranked, req)
                    IN  Ends(out, SearchResponse(out.results))
    /\ op' = "invalidity"
    /\ pc' = "done"
    /\ UNCHANGED <<source_patent, files, Process, Cleaning, Risk>>

ServeInfringement ==
    /\ pc = "idle"
    /\ \E req \in PlainRequests(InfringementRequests) :
         /\ request' = req
         /\ \/ LoadFails
            \/ \E sims \in SimilarityVectors :
                 \E ranked \in _compute_similarity(sims, RankWindow) :
                    LET out == infringement_attempt(ranked, req)
                    IN  Ends(out, SearchResponse(out.results))
    /\ op' = "infringement"
    /\ pc' = "done"
    /\ UNCHANGED <<source_patent, files, Process, Cleaning, Risk>>

ServePatentability ==
    /\ pc = "idle"
    /\ \E req \in PlainRequests(PatentabilityRequests) :
         /\ request' = req
         /\ \/ LoadFails
            \/ \E sims \in SimilarityVectors :
                 \E ranked \in _compute_similarity(sims, RankWindow) :
                    LET out == patentability_attempt(ranked, req)
                    IN  Ends(out, SearchResponse(out.results))
    /\ op' = "patentability"
    /\ pc' = "done"
    /\ UNCHANGED <<source_patent, files, Process, Cleaning, Risk>>

ServePatentId ==
    /\ pc = "idle"
    /\ \E req \in PlainRequests(PatentIdRequests) :
         LET source == get_patent_by_id(req.doc_number)
         IN  /\ request' = req
             /\ source_patent' = source
             /\ \/ /\ source = NoneRec
                   /\ candidates' = <<>>
                   /\ results' = <<>>
                   /\ response' = PatentIdNotFound
                   /\ work' = <<>>
                   /\ raised' = None
                   /\ UNCHANGED <<Engine, model, failed_loads>>
                \/ /\ source # NoneRec
                   /\ \/ LoadFails
                      \/ \E sims \in SimilarityVectors :
                           \E ranked \in _compute_similarity(sims, RankWindow) :
                              LET out == patent_id_attempt(ranked, source, req)
                              IN  Ends(out, PatentIdSearchResponse(source,
                                                                  out.results))
    /\ op' = "patent_id"
    /\ pc' = "done"
    /\ UNCHANGED <<files, Process, Cleaning, Risk>>

NextFaults ==
    \/ ServeInvalidity
    \/ ServeInfringement
    \/ ServePatentability
    \/ ServePatentId
    \/ Return

SpecFaults == InitFaults /\ [][NextFaults]_vars

-----------------------------------------------------------------------------
(* The cleaning pipeline's deduplication *)

\* longest list handed to deduplicate_records
MaxInput == 3

\* doc_number is the stripped field of the raw record, "" when it is missing
CleanedDocNumbers == {"", "A", "B"}
CleanedTitles == {"x", "y"}
PatentRecord(doc_number, title) == [doc_number |-> doc_number, title |-> title]
PatentRecords ==
    {PatentRecord(d, t) : d \in CleanedDocNumbers, t \in CleanedTitles}

RECURSIVE ListsUpTo(_, _)
ListsUpTo(S, n) ==
    IF n = 0 THEN {<<>>}
    ELSE ListsUpTo(S, n - 1) \cup
         {Append(l, x) : l \in {m \in ListsUpTo(S, n - 1) : Len(m) = n - 1},
                         x \in S}

\* doc_num = record.doc_number, or f"_empty_{len(unique_records)}"
DedupKey(record, unique) ==
    IF record.doc_number = "" THEN "_empty_" \o Decimal(Len(unique))
    ELSE record.doc_number

RECURSIVE DedupLoop(_, _, _)
\* the for loop: rest is what is left of records, seen the keys of
\* seen_doc_numbers, stats the result and the statistics so far
DedupLoop(rest, seen, stats) ==
    IF rest = <<>> THEN stats
    ELSE LET record == Head(rest)
             doc_num == DedupKey(record, stats.unique_records)
         IN  IF doc_num \in seen
             THEN DedupLoop(Tail(rest), seen,
                    [stats EXCEPT
                       !.duplicate_count = @ + 1,
                       !.duplicate_doc_numbers = Append(@, doc_num)])
             ELSE DedupLoop(Tail(rest), seen \cup {doc_num},
                    [stats EXCEPT !.unique_records = Append(@, record)])

deduplicate_records(recs) ==
    DedupLoop(recs, {}, [unique_records |-> <<>>, duplicate_count |-> 0,
                         duplicate_doc_numbers |-> <<>>])

InitDedup ==
    /\ patents = <<>>
    /\ _doc_index = BuildDocIndex(<<>>)
    /\ embeddings = <<>>
    /\ model = None
    /\ files = [data |-> ListFile(<<>>), index |-> NoFile]
    /\ failed_loads = 0
    /\ NoCall
    /\ NoProcess
    /\ NoRisk
    /\ records \in ListsUpTo(PatentRecords, MaxInput)
    /\ unique_records = <<>>
    /\ duplicate_count = 0
    /\ duplicate_doc_numbers = <<>>

Deduplicate ==
    /\ pc = "idle"
    /\ LET out == deduplicate_records(records)
       IN  /\ unique_records' = out.unique_records
           /\ duplicate_count' = out.duplicate_count
           /\ duplicate_doc_numbers' = out.duplicate_doc_numbers
    /\ op' = "deduplicate"
    /\ pc' = "done"
    /\ UNCHANGED <<records, Engine, model, request, candidates, results,
                   source_patent, response, work, raised, files, failed_loads,
                   Process, Risk>>

NextDedup == Deduplicate

SpecDedup == InitDedup /\ [][NextDedup]_vars

-----------------------------------------------------------------------------
(* The filter pipeline: direct calls of the four filters, each on the list  *)
(* the ranking or the previous filter returned                              *)

FilterOps == {"classification", "date", "keywords", "title"}

\* a list is at hand: `candidates = self._compute_similarity(...)` or
\* `candidates = self._filter_by_...(candidates, ...)` has just run
ListAtHand == pc = "done" /\ op \in {"rank"} \cup FilterOps

\* candidates = self._compute_similarity(query, top_k=100)
RankCandidates ==
    /\ pc = "idle"
    /\ \E sims \in SimilarityVectors :
         \E ranked \in _compute_similarity(sims, RankWindow) :
            /\ request' = [query |-> sims, top_k |-> RankWindow]
            /\ candidates' = ranked
    /\ op' = "rank"
    /\ pc' = "done"
    /\ Becomes(_load_model(Self))
    /\ work' = <<(<<QueryText>>)>>
    /\ raised' = None
    /\ UNCHANGED <<Outside, results, source_patent, response>>

\* what a filter call leaves alone
FilterFrame ==
    UNCHANGED <<pc, Engine, model, results, source_patent, response, work,
                raised, Outside>>

\* candidates = self._filter_by_classification(candidates, prefix)
FilterByClassification ==
    /\ ListAtHand
    /\ \E prefix \in ClassPrefixes :
         /\ request' = [candidates |-> candidates, prefix |-> prefix]
         /\ candidates' = _filter_by_classification(candidates, prefix)
    /\ op' = "classification"
    /\ FilterFrame

\* candidates = self._filter_by_date(candidates, date_from, date_to)
FilterByDate ==
    /\ ListAtHand
    /\ \E date_from \in DateBounds, date_to \in DateBounds :
         /\ request' = [candidates |-> candidates, date_from |-> date_from,
                        date_to |-> date_to]
         /\ candidates' = _filter_by_date(candidates, date_from, date_to)
    /\ op' = "date"
    /\ FilterFrame

\* candidates = self._filter_by_keywords(candidates, keywords)
FilterByKeywords ==
    /\ ListAtHand
    /\ \E keywords \in KeywordLists :
         /\ request' = [candidates |-> candidates, keywords |-> keywords]
         /\ candidates' = _filter_by_keywords(candidates, keywords)
    /\ op' = "keywords"
    /\ FilterFrame

\* candidates = self._filter_by_title(candidates, title_query)
FilterByTitle ==
    /\ ListAtHand
    /\ \E title_query \in TitleQueries :
         /\ request' = [candidates |-> candidates, title_query |-> title_query]
         /\ candidates' = _filter_by_title(candidates, title_query)
    /\ op' = "title"
    /\ FilterFrame

NextFilters ==
    \/ RankCandidates
    \/ FilterByClassification
    \/ FilterByDate
    \/ FilterByKeywords
    \/ FilterByTitle
    \/ Return

SpecFilters == Init /\ [][NextFilters]_vars

-----------------------------------------------------------------------------
(* Direct calls of the four scenario methods of an engine, on the corpora   *)
(* of the model and on the large corpus.  The query is recorded as its      *)
(* similarity to each record.                                               *)

\* queries whose similarities to the records of the large corpus are all
\* different: rising with the array position, falling with it
SpreadQueries ==
    {[i \in DOMAIN embeddings |-> 30000 + 100 * i],
     [i \in DOMAIN embeddings |-> 95000 - 100 * i]}

Queries ==
    IF Len(patents) <= MaxRecords THEN SimilarityVectors ELSE SpreadQueries

\* arguments of a method call: top_k of at least 1 (the methods do not
\* check the upper limit), no keyword, title or date criteria
MethodArguments(reqs) ==
    {r \in reqs :
        /\ r.top_k >= 1
        /\ "keywords" \in DOMAIN r => (r.keywords = <<>> /\ r.title_search = "")
        /\ "target_date" \in DOMAIN r => r.target_date = None
        /\ "date_from" \in DOMAIN r => (r.date_from = None /\ r.date_to = None)}

InitMethods ==
    /\ patents \in Corpora \cup {LargeCorpus}
    /\ _doc_index = BuildDocIndex(patents)
    /\ embeddings = Encode(CombinedTexts(patents))
    /\ model = None
    /\ files = [data |-> ListFile(patents), index |-> IndexFile(embeddings)]
    /\ failed_loads = 0
    /\ NoCall
    /\ NoProcess
    /\ NoCleaning
    /\ NoRisk

\* the method ranked the corpus for the query `sims` and returned `out`
Searched(sims, req, out) ==
    /\ request' = [query |-> sims] @@ req
    /\ Ranked(out)

\* engine.invalidity_search(query_claims, ...)
InvaliditySearch ==
    /\ pc = "idle"
    /\ \E req \in MethodArguments(InvalidityRequests), sims \in Queries :
         \E ranked \in _compute_similarity(sims, RankWindow) :
            Searched(sims, req, invalidity_search(ranked, req))
    /\ op' = "invalidity"
    /\ pc' = "done"
    /\ UNCHANGED <<Outside, source_patent, response>>

\* engine.infringement_search(my_claims, my_doc_number, ...)
InfringementSearch ==
    /\ pc = "idle"
    /\ \E req \in MethodArguments(InfringementRequests), sims \in Queries :
         \E ranked \in _compute_similarity(sims, RankWindow) :
            Searched(sims, req, infringement_search(ranked, req))
    /\ op' = "infringement"
    /\ pc' = "done"
    /\ UNCHANGED <<Outside, source_patent, response>>

\* engine.patentability_search(invention_description, ...)
PatentabilitySearch ==
    /\ pc = "idle"
    /\ \E req \in MethodArguments(PatentabilityRequests), sims \in Queries :
         \E ranked \in _compute_similarity(sims, RankWindow) :
            Searched(sims, req, patentability_search(ranked, req))
    /\ op' = "patentability"
    /\ pc' = "done"
    /\ UNCHANGED <<Outside, source_patent, response>>

\* engine.search_by_patent_id(doc_number, ...) for the doc_number of the
\* first or the last record of the corpus
SearchByPatentId ==
    /\ pc = "idle"
    /\ \E d \in {patents[1].doc_number, patents[Len(patents)].doc_number},
          c \in {"", "b60"}, k \in TopKs \ {0}, sims \in Queries :
         \E ranked \in _compute_similarity(sims, RankWindow) :
            LET req == [doc_number |-> d, classification |-> c, top_k |-> k]
                source == get_patent_by_id(d)
            IN  /\ source_patent' = source
                /\ Searched(sims, req, search_by_patent_id(ranked, source, req))
    /\ op' = "patent_id"
    /\ pc' = "done"
    /\ UNCHANGED <<Outside, response>>

NextMethods ==
    \/ InvaliditySearch
    \/ InfringementSearch
    \/ PatentabilitySearch
    \/ SearchByPatentId
    \/ Return

SpecMethods == InitMethods /\ [][NextMethods]_vars

-----------------------------------------------------------------------------
(* _extract_independent_claims on its own *)

\* longest claim list handed to _extract_independent_claims
MaxClaims == 4

\* independent[:3]
IndependentClaimsCap == 3

\* claim texts: no reference; a reference; one in capitals to a range; one
\* after two blanks; "claimed" followed by a number
ClaimTexts ==
    {"a valve", "the valve of claim 1", "The Valve Of Claims 1-3",
     "a cap as in claim  2", "as claimed, 3 parts"}

\* \s and \d
WhitespaceChars == {" ", "\t", "\n"}
DigitChars == {Digits[i] : i \in DOMAIN Digits}

\* \s+\d+ matches at position q of text
WhitespaceThenDigits(text, q) ==
    \E d \in (q + 1)..Len(text) :
        /\ \A j \in q..(d - 1) : Char(text, j) \in WhitespaceChars
        /\ Char(text, d) \in DigitChars

\* re.search(r'claim\s+\d+|claims\s+\d+', text) finds a match
ReferenceSearch(text) ==
    \E p \in 1..(Len(text) - 4) :
        /\ SubSeq(text, p, p + 4) = "claim"
        /\ \/ WhitespaceThenDigits(text, p + 5)
           \/ /\ p + 5 <= Len(text)
              /\ Char(text, p + 5) = "s"
              /\ WhitespaceThenDigits(text, p + 6)

ReferenceSearchTable == [t \in ClaimTexts |-> ReferenceSearch(Lower(t))]

\* mutant: the first claim is tested like the others
_extract_independent_claims_FirstTested(claims) ==
    LET Independent(i) == ~ReferenceSearchTable[claims[i]]
        F[i \in 0..Len(claims)] ==
            IF i = 0 THEN <<>>
            ELSE IF Independent(i) THEN Append(F[i - 1], claims[i])
            ELSE F[i - 1]
    IN  Take(F[Len(claims)], IndependentClaimsCap)

\* the loop over enumerate(claims), then independent[:3]
_extract_independent_claims(claims) ==
    LET Independent(i) == ~ReferenceSearchTable[claims[i]] \/ i = 1
        F[i \in 0..Len(claims)] ==
            IF i = 0 THEN <<>>
            ELSE IF Independent(i) THEN Append(F[i - 1], claims[i])
            ELSE F[i - 1]
    IN  Take(F[Len(claims)], IndependentClaimsCap)

\* an engine constructed from a data file of one record
InitClaims ==
    /\ patents = <<RecA>>
    /\ _doc_index = BuildDocIndex(patents)
    /\ embeddings = Encode(CombinedTexts(patents))
    /\ model = None
    /\ files = [data |-> ListFile(patents), index |-> IndexFile(embeddings)]
    /\ failed_loads = 0
    /\ NoCall
    /\ NoProcess
    /\ NoCleaning
    /\ NoRisk

\* a direct call of engine._extract_independent_claims(claims); results is
\* the list it returned
ExtractIndependentClaims ==
    /\ pc = "idle"
    /\ \E claims \in ListsUpTo(ClaimTexts, MaxClaims) :
         /\ request' = [claims |-> claims]
         /\ results' = _extract_independent_claims(claims)
    /\ op' = "independent_claims"
    /\ pc' = "done"
    /\ UNCHANGED <<Outside, Engine, model, candidates, source_patent, response,
                   work, raised>>

NextClaims ==
    \/ ExtractIndependentClaims
    \/ Return

SpecClaims == InitClaims /\ [][NextClaims]_vars

-----------------------------------------------------------------------------
(* A process from the construction of its engine on: the engine is built    *)
(* from a data file that holds a corpus, then used by one call at a time    *)

\* an engine exists (every corpus of this specification has records)
Constructed == patents # <<>>

\* no engine yet; a corpus file, and no embeddings file or the one an
\* earlier run saved for that corpus
InitLifecycle ==
    /\ files \in UNION {{[data |-> ListFile(ps), index |-> NoFile],
                          [data |-> ListFile(ps),
                           index |-> IndexFile(Encode(CombinedTexts(ps)))]} :
                         ps \in Corpora}
    /\ patents = NoEngine.patents
    /\ _doc_index = NoEngine._doc_index
    /\ embeddings = NoEngine.embeddings
    /\ model = NoEngine.model
    /\ failed_loads = 0
    /\ NoCall
    /\ NoProcess
    /\ NoCleaning
    /\ NoRisk

NextLifecycle ==
    \/ ~Constructed /\ Construct
    \/ Constructed /\ ComputeSimilarity
    \/ Constructed /\ GetPatentById
    \/ Return

SpecLifecycle == InitLifecycle /\ [][NextLifecycle]_vars

-----------------------------------------------------------------------------
(* Properties *)

Done(o) == pc = "done" /\ op = o
Answered(o) == Done(o) /\ response.status = 200

NonIncreasing(cands) ==
    \A i, j \in DOMAIN cands : i < j => cands[i].score >= cands[j].score

\* C1: for any corpus, query and limit >= 1, _compute_similarity returns at
\* most `limit` candidates and their scores are in non-increasing order.
RankAtMostLimitNonIncreasing ==
    Done("rank") =>
        /\ Len(candidates) <= request.top_k
        /\ NonIncreasing(candidates)

\* a ranking cut short by the limit, holding two different scores
RankTruncatedWitness ==
    /\ Done("rank")
    /\ Len(patents) > request.top_k
    /\ Len(candidates) = 2
    /\ candidates[1].score > candidates[2].score

\* the multiple of 1e-4 nearest to score; of two equally near, the even one
RoundedTo4(r, score) ==
    /\ r % 10 = 0
    /\ \/ r - score < 5 /\ score - r < 5
       \/ (r - score = 5 \/ score - r = 5) /\ (r \div 10) % 2 = 0

\* C11: every result of the four scenario methods has all_claims equal to the
\* first min(10, n) claims of its record, in order, detailed_description equal
\* to the first 500 characters of the record's description, and
\* similarity_score equal to the ranking score rounded to 4 decimal places.
ResultsCappedAndRounded ==
    (pc = "done" /\ op \in {"invalidity", "infringement", "patentability",
                            "patent_id"}) =>
        \A i \in DOMAIN results :
            \E k \in DOMAIN candidates :
                LET r == results[i]
                    p == patents[candidates[k].idx]
                IN  /\ p.doc_number = r.doc_number
                    /\ Len(r.all_claims) <= 10
                    /\ Len(r.all_claims) = Min(10, Len(p.claims))
                    /\ \A j \in DOMAIN r.all_claims : r.all_claims[j] = p.claims[j]
                    /\ Len(r.detailed_description) <= 500
                    /\ Len(r.detailed_description)
                           = Min(500, Len(p.detailed_description))
                    /\ r.detailed_description
                           = SubSeq(p.detailed_description, 1,
                                    Len(r.detailed_description))
                    /\ RoundedTo4(r.similarity_score, candidates[k].score)

\* a result for B, which has 11 claims and a description of 504 characters,
\* ranked with a score that is not a multiple of 1e-4
CappedResultWitness ==
    /\ Answered("patent_id")
    /\ Len(results) >= 1
    /\ results[1].doc_number = "B"
    /\ Len(RecB.claims) = 11
    /\ Len(results[1].all_claims) = 10
    /\ Len(RecB.detailed_description) = 504
    /\ Len(results[1].detailed_description) = 500
    /\ candidates[1].score = 90004
    /\ results[1].similarity_score = 90000

CallsLeaveEngineUnchanged ==
    [][/\ patents' = patents
       /\ _doc_index' = _doc_index
       /\ embeddings' = embeddings]_vars

\* a get_patent_by_id call that follows a scenario call, which loaded the
\* model
ModelLoadedEngineIntactWitness ==
    /\ Done("get_by_id")
    /\ source_patent # NoneRec
    /\ model = "loaded"
    /\ patents = files.data.value
    /\ embeddings = files.index.rows

\* C2: for every record of the corpus (doc_numbers unique),
\* get_patent_by_id(record.doc_number) returns exactly that record.
GetByIdLeftInverse ==
    Done("get_by_id") =>
        \A i \in DOMAIN patents :
            patents[i].doc_number = request.doc_number
                => source_patent = patents[i]

\* the lookup of "US-A" in a corpus where "A", of the same normalised form,
\* comes first
GetByIdCollisionWitness ==
    /\ Done("get_by_id")
    /\ request.doc_number = "US-A"
    /\ Len(patents) >= 2
    /\ patents[1] = RecA
    /\ source_patent = RecD

\* C3: invalidity search with a target_date returns only records published
\* earlier than target_date: no result has an empty publication_date or a
\* publication_date equal to or later than target_date.
InvalidityOnlyEarlierThanTarget ==
    (Answered("invalidity") /\ Truthy(request.target_date)) =>
        \A i \in DOMAIN results :
            /\ results[i].publication_date # ""
            /\ StrLess(results[i].publication_date, request.target_date)

\* C4: on the corpus A, B, C, invalidity search with classification "B60C"
\* and target_date "2021-01-01" returns exactly the record A, whatever the
\* similarity scores.
EndToEndCall ==
    /\ Answered("invalidity")
    /\ patents = <<RecA, RecB, RecC>>
    /\ request.classification = "B60C"
    /\ request.target_date = "2021-01-01"
    /\ request.keywords = <<>>
    /\ request.title_search = ""

EndToEndInvalidityOnlyA ==
    EndToEndCall =>
        /\ Len(results) = 1
        /\ results[1].doc_number = "A"
        /\ patents[candidates[1].idx] = RecA

\* the call of the scenario, answered with A, which has the lowest score
EndToEndWitness ==
    /\ EndToEndCall
    /\ Len(results) = 1
    /\ results[1].doc_number = "A"
    /\ results[1].similarity_score = 30000

\* C5: for any corpus and parameters, no result of infringement_search has
\* doc_number equal to my_doc_number.
InfringementNeverOwnPatent ==
    Done("infringement") =>
        \A i \in DOMAIN results :
            results[i].doc_number # request.my_doc_number

\* the caller's patent was within the first top_k candidates and skipped
OwnPatentSkippedWitness ==
    /\ Answered("infringement")
    /\ \E k \in DOMAIN candidates :
           patents[candidates[k].idx].doc_number = request.my_doc_number
    /\ Len(candidates) = 2
    /\ Len(results) = 1

\* C6: risk level by similarity: > 0.9 "Very High"; 0.7 <= s <= 0.9 "High";
\* 0.5 <= s < 0.7 "Medium"; < 0.5 "Low".
RiskLevelBoundaries ==
    Done("risk") =>
        /\ risk_in > 90000 => risk_out = "Very High"
        /\ (risk_in >= 70000 /\ risk_in <= 90000) => risk_out = "High"
        /\ (risk_in >= 50000 /\ risk_in < 70000) => risk_out = "Medium"
        /\ risk_in < 50000 => risk_out = "Low"

\* similarity exactly 0.9 is "High"
RiskAtNineTenthsWitness ==
    Done("risk") /\ risk_in = 90000 /\ risk_out = "High"

\* the levels as the docstring of POST /api/search/infringement states them
DocumentedRiskLevel(similarity) ==
    IF similarity >= 80000 THEN "Very High"
    ELSE IF similarity >= 65000 THEN "High"
    ELSE IF similarity >= 50000 THEN "Medium"
    ELSE "Low"

\* C7: every result of POST /api/search/infringement carries the risk level
\* documented on the endpoint: "Very High" from 0.8, "High" from 0.65,
\* "Medium" from 0.5, "Low" below 0.5.
EndpointRiskAsDocumented ==
    Answered("infringement") =>
        \A i \in DOMAIN response.results :
            response.results[i].risk_level
                = DocumentedRiskLevel(response.results[i].similarity_score)

\* C8: in the results of patentability_search, closest_prior_art is True for
\* the first result and for no other; for none when the list is empty.
ClosestPriorArtIsFirstOnly ==
    Done("patentability") =>
        \A i \in DOMAIN results : results[i].closest_prior_art <=> (i = 1)

\* two results, after a filter removed the top-ranked record
ClosestPriorArtWitness ==
    /\ Answered("patentability")
    /\ Len(results) = 2
    /\ Len(patents) = 3
    /\ results[1].closest_prior_art
    /\ ~results[2].closest_prior_art

\* no record has this doc_number, nor its normalised form
MatchesNoRecord(doc_number) ==
    \A i \in DOMAIN patents :
        /\ patents[i].doc_number # doc_number
        /\ NormalizeRecord(patents[i].doc_number) # NormalizeQuery(doc_number)

\* C9: search_by_patent_id with a doc_number that matches no record returns
\* (None, []) without raising, and the endpoint answers success=False,
\* source_patent=None, total=0, results=[]; a found source is answered with
\* success=True and a source_patent, also when it has no similar results.
PatentIdNotFoundShape ==
    Answered("patent_id") =>
        /\ MatchesNoRecord(request.doc_number) =>
              /\ source_patent = NoneRec
              /\ results = <<>>
              /\ response.success = FALSE
              /\ response.source_patent = NoneRec
              /\ response.total = 0
              /\ response.results = <<>>
        /\ ~MatchesNoRecord(request.doc_number) =>
              /\ response.success = TRUE
              /\ response.source_patent # NoneRec

\* a valid request for "Z", which no record of a two-record corpus matches
PatentIdNotFoundWitness ==
    /\ Done("patent_id")
    /\ request.doc_number = "Z"
    /\ request.top_k = 1
    /\ Len(patents) = 2
    /\ response.status = 200
    /\ response.success = FALSE

\* C10: when search_by_patent_id resolves a source record, by exact match or
\* by the normalised fallback, that record is the first element of the pair
\* and never appears among the results.
PatentIdSourceExcluded ==
    (Answered("patent_id") /\ source_patent # NoneRec) =>
        /\ \E i \in DOMAIN patents :
              /\ source_patent = patents[i]
              /\ \/ patents[i].doc_number = request.doc_number
                 \/ NormalizeRecord(patents[i].doc_number)
                        = NormalizeQuery(request.doc_number)
        /\ \A k \in DOMAIN candidates : patents[candidates[k].idx] # source_patent
        /\ \A i \in DOMAIN results :
              results[i].doc_number # source_patent.doc_number

\* the source is found by the fallback only and both other records are
\* returned
PatentIdFallbackWitness ==
    /\ Answered("patent_id")
    /\ request.doc_number = "us-a"
    /\ source_patent = RecD
    /\ Len(patents) = 3
    /\ Len(results) = 2

\* the text embedded for a record: its title, its abstract and its first
\* three claims, separated by single spaces
TitleAbstractThreeClaims(p) ==
    LET c == p.claims
        first3 == IF Len(c) = 0 THEN ""
                  ELSE IF Len(c) = 1 THEN c[1]
                  ELSE IF Len(c) = 2 THEN c[1] \o " " \o c[2]
                  ELSE c[1] \o " " \o c[2] \o " " \o c[3]
    IN  p.title \o " " \o p.abstract \o " " \o first3

\* C12: after the vector index has been loaded or built, the number of
\* embedding rows equals the number of corpus records and row i belongs to
\* record i; a persisted file with another row count is not used but rebuilt.
IndexRowsMatchCorpus ==
    (Done("construct") /\ raised = None) =>
        /\ Len(embeddings) = Len(patents)
        /\ \A i \in DOMAIN embeddings :
              embeddings[i].vector_of = TitleAbstractThreeClaims(patents[i])

\* C14: if the embeddings file exists when the engine is constructed, it is
\* loaded and nothing is embedded (the model is not loaded); otherwise every
\* record is embedded once, in corpus order, from title, abstract and first
\* three claims, and the rows are saved; no step removes the file, so the
\* next construction loads it.
IndexLoadedElseBuiltAndSaved ==
    [][/\ (pc' = "done" /\ op' = "construct" /\ raised' = None) =>
            IF files.index.exists
            THEN /\ work' = <<>>
                 /\ model' = None
                 /\ embeddings' = files.index.rows
            ELSE /\ Len(work') = 1
                 /\ Len(work'[1]) = Len(patents')
                 /\ \A i \in DOMAIN patents' :
                       /\ work'[1][i] = TitleAbstractThreeClaims(patents'[i])
                       /\ embeddings'[i].vector_of = work'[1][i]
                 /\ Len(embeddings') = Len(patents')
                 /\ files'.index.exists
                 /\ files'.index.rows = embeddings'
       /\ files.index.exists => files'.index = files.index]_vars

\* the engine was built for A and B: two texts were encoded, the one of B
\* ending with its third claim, and saved
IndexBuiltWitness ==
    /\ Done("construct")
    /\ raised = None
    /\ ~request.index_existed
    /\ patents = <<RecA, RecB>>
    /\ work = <<(<<"tire sensor a tire 1. comprising a sensor",
                   "Tire valve a valve with a sensor 1. a valve 2. the valve of claim 1 3. c">>)>>
    /\ files.index.exists
    /\ Len(files.index.rows) = 2
    /\ model = "loaded"

\* C15: loading the corpus fails when the file is missing, is not valid
\* JSON, or holds a JSON value that is not a list, and then no engine with a
\* loaded corpus is produced.
CorpusLoadFailsUnlessList ==
    (Done("construct") /\ files.data.kind # "list") =>
        /\ raised \in CorpusLoadErrors
        /\ Self = NoEngine

\* C13: under any interleaving of concurrent first requests the engine is
\* constructed at most once and the model is loaded at most once, and every
\* request uses the same engine and model instance.
EngineAndModelCreatedOnce ==
    /\ Len(heap) <= 1
    /\ Cardinality({n \in DOMAIN heap : heap[n].model = "loaded"}) <= 1
    /\ \A t, u \in Requests :
          (threads[t].pc \in {"handler", "done"}
              /\ threads[u].pc \in {"handler", "done"})
                 => threads[t].engine = threads[u].engine

\* C17: if an exception is raised while a scenario call is served (during
\* ranking, filtering or while building the k-th result), the caller
\* receives HTTP 500 carrying the exception's message, never a success
\* response holding the results built so far.
ExceptionsAnswered500 ==
    (pc = "done" /\ op \in Scenarios /\ raised # None) =>
        /\ response.status = 500
        /\ response.detail = raised
        /\ "results" \notin DOMAIN response

\* the second record read by the result loop does not exist: one result had
\* been built when IndexError was raised
SecondResultRaisesWitness ==
    /\ Done("invalidity")
    /\ raised = IndexError
    /\ Len(candidates) = 2
    /\ Stray(candidates[2])
    /\ Len(results) = 1
    /\ response = [status |-> 500, detail |-> IndexError]

\* C18: once the model has failed to load, every search attempted afterward
\* on that engine surfaces a failure to its caller and returns no results,
\* and the engine does not try to load the model again.
ModelLoadFailureIsFinal ==
    /\ (pc = "done" /\ op \in Scenarios /\ failed_loads > 0) =>
          /\ response.status = 500
          /\ results = <<>>
    /\ failed_loads <= 1

\* the records of recs that no earlier record shares its doc_number with
FirstOccurrences(recs) ==
    LET first == {i \in DOMAIN recs :
                    \A j \in 1..(i - 1) : recs[j].doc_number # recs[i].doc_number}
        F[i \in 0..Len(recs)] ==
            IF i = 0 THEN <<>>
            ELSE IF i \in first THEN Append(F[i - 1], recs[i]) ELSE F[i - 1]
    IN  F[Len(recs)]

\* C20: for every input list, records with an empty doc_number included, the
\* output of deduplicate_records has no two records with the same
\* doc_number, keeps the first occurrence of each doc_number, and preserves
\* the relative order of the kept records.
DeduplicatedByDocNumber ==
    Done("deduplicate") =>
        /\ \A i, j \in DOMAIN unique_records :
              unique_records[i].doc_number = unique_records[j].doc_number
                  => i = j
        /\ unique_records = FirstOccurrences(records)


\* C21: two records with exactly the same similarity to the query are
\* returned in original array order, the lower array position first, and
\* when only one of them fits within the limit it is the one with the lower
\* array position.
TiesInArrayOrder ==
    Done("rank") =>
        /\ \A i, j \in DOMAIN candidates :
              (i < j /\ candidates[i].score = candidates[j].score)
                  => candidates[i].idx < candidates[j].idx
        /\ \A i \in DOMAIN candidates : \A k \in DOMAIN request.query :
              (k < candidates[i].idx /\ request.query[k] = candidates[i].score)
                  => \E j \in DOMAIN candidates : candidates[j].idx = k

\* a filter call has returned: request holds its arguments, candidates the
\* list it returned
Filtered == pc = "done" /\ op \in FilterOps

\* the entries of seq at the positions in picks, in the order of seq
Pick(seq, picks) ==
    LET F[i \in 0..Len(seq)] ==
            IF i = 0 THEN <<>>
            ELSE IF i \in picks THEN Append(F[i - 1], seq[i]) ELSE F[i - 1]
    IN  F[Len(seq)]

IsSubsequence(out, inp) ==
    \E picks \in SUBSET DOMAIN inp : out = Pick(inp, picks)

\* C22: each of the four filters returns a subsequence of the list it was
\* given (entries are only removed, never added, duplicated, reordered or
\* rescored), so a list in non-increasing score order stays so through any
\* chain of filters.
FiltersOnlyRemove ==
    Filtered =>
        /\ IsSubsequence(candidates, request.candidates)
        /\ NonIncreasing(candidates)

\* a title filter took the middle one of three candidates out
MiddleCandidateRemovedWitness ==
    /\ Filtered
    /\ op = "title"
    /\ Len(request.candidates) = 3
    /\ candidates = <<request.candidates[1], request.candidates[3]>>
    /\ candidates[1].score > candidates[2].score

\* the filter calls of the model
FilterCalls ==
    [filter : {"classification"}, prefix : ClassPrefixes]
        \cup [filter : {"date"}, date_from : DateBounds, date_to : DateBounds]
        \cup [filter : {"keywords"}, keywords : KeywordLists]
        \cup [filter : {"title"}, title_query : TitleQueries]

\* the filter call f on the list cands
Apply(f, cands) ==
    CASE f.filter = "classification" ->
            _filter_by_classification(cands, f.prefix)
      [] f.filter = "date" -> _filter_by_date(cands, f.date_from, f.date_to)
      [] f.filter = "keywords" -> _filter_by_keywords(cands, f.keywords)
      [] f.filter = "title" -> _filter_by_title(cands, f.title_query)

\* the call that has just returned, without its list
LastCall == [x \in {"filter"} |-> op] @@
            [x \in DOMAIN request \ {"candidates"} |-> request[x]]

\* C23: applying a filter twice gives the same list as applying it once, and
\* applying two filters in either order gives the same final list.
FiltersIdempotentAndCommute ==
    Filtered =>
        /\ Apply(LastCall, candidates) = candidates
        /\ \A g \in FilterCalls :
              Apply(g, candidates) = Apply(LastCall, Apply(g, request.candidates))

\* a keyword filter removed a candidate, and a classification filter removes
\* another one of those it kept without removing them all
TwoFiltersBothRemoveWitness ==
    /\ Filtered
    /\ op = "keywords"
    /\ Len(candidates) < Len(request.candidates)
    /\ \E g \in FilterCalls :
          /\ g.filter = "classification"
          /\ Apply(g, candidates) # candidates
          /\ Apply(g, candidates) # <<>>

Digit == [c \in {"0", "1", "2", "3", "4", "5", "6", "7", "8", "9"} |->
             CHOOSE n \in 0..9 : Digits[n + 1] = c]

\* the day a YYYY-MM-DD string names, as the number YYYYMMDD
DateValue(d) ==
    LET digits == Replace(d, "-", "")
        V[i \in 0..Len(digits)] ==
            IF i = 0 THEN 0 ELSE 10 * V[i - 1] + Digit[Char(digits, i)]
    IN  V[Len(digits)]

Supplied(bound) == bound # None /\ bound # ""

\* C24: the date filter returns the list unchanged when no bound is
\* supplied; otherwise it keeps a candidate exactly when the record's
\* publication_date is non-empty, not before date_from if that is supplied
\* and not after date_to if that is supplied (both bounds inclusive).
DateFilterKeepsWithinBounds ==
    (Filtered /\ op = "date") =>
        LET InRange(c) ==
                LET pub_date == patents[c.idx].publication_date
                IN  /\ pub_date # ""
                    /\ Supplied(request.date_from) =>
                          DateValue(pub_date) >= DateValue(request.date_from)
                    /\ Supplied(request.date_to) =>
                          DateValue(pub_date) <= DateValue(request.date_to)
        IN  candidates =
              IF ~Supplied(request.date_from) /\ ~Supplied(request.date_to)
              THEN request.candidates
              ELSE SelectSeq(request.candidates, InRange)

\* records published on date_from and on date_to are kept, one without a
\* publication date is dropped
DateOnBoundsKeptWitness ==
    /\ Filtered
    /\ op = "date"
    /\ request.date_from = "2020-01-01"
    /\ request.date_to = "2022-01-01"
    /\ Len(request.candidates) = 3
    /\ {patents[request.candidates[i].idx].publication_date :
           i \in DOMAIN request.candidates} = {"2020-01-01", "2022-01-01", ""}
    /\ {patents[candidates[i].idx].publication_date :
           i \in DOMAIN candidates} = {"2020-01-01", "2022-01-01"}

\* uppercase, whitespace and hyphens removed, a leading "US" stripped
NormalizeLeadingPrefix(doc_number) ==
    LET bare == Replace(Replace(Upper(doc_number), "-", ""), " ", "")
    IN  IF StartsWith(bare, "US") THEN SubSeq(bare, 3, Len(bare)) ELSE bare

\* C25: when get_patent_by_id finds no exact match, it returns the first
\* record in corpus order whose normalised doc_number equals the normalised
\* query, and None when there is none, where normalising is: uppercase,
\* remove whitespace and hyphens, strip only a leading "US" (a "US"
\* elsewhere in the number is kept).
FallbackStripsLeadingPrefixOnly ==
    (Done("get_by_id") /\ request.doc_number \notin DOMAIN _doc_index) =>
        LET normalized == NormalizeLeadingPrefix(request.doc_number)
            hits == {i \in DOMAIN patents :
                       NormalizeLeadingPrefix(patents[i].doc_number) = normalized}
        IN  source_patent =
              IF hits = {} THEN NoneRec
              ELSE patents[CHOOSE i \in hits : \A j \in hits : i <= j]

\* the method call has returned (the endpoints of the other specifications
\* leave a response, a direct call does not)
Searching(o) == Done(o) /\ "query" \in DOMAIN request

\* fewer than 100 records are more similar to the query than record i
InWindow(i) ==
    Cardinality({j \in DOMAIN patents : request.query[j] > request.query[i]})
        < RankWindow

\* the candidates of an infringement call that pass the classification
\* filter and the similarity floor, the caller's own record included
Qualifies(i) ==
    /\ InWindow(i)
    /\ request.classification # "" =>
          StartsWith(Upper(patents[i].classification),
                     Upper(request.classification))
    /\ request.query[i] >= request.min_similarity

\* C26: in infringement_search the caller's own record is removed after the
\* truncation: the list the results are built from is the first top_k
\* candidates that passed the filters and the similarity floor, the own
\* record counted, and the results are those of them whose doc_number is
\* not my_doc_number; so with the own record among them the call returns
\* top_k - 1 results even though further candidates qualify.
OwnRecordExcludedAfterTruncation ==
    Searching("infringement") =>
        LET qualifying == {i \in DOMAIN patents : Qualifies(i)}
            window == {candidates[k].idx : k \in DOMAIN candidates}
            Own(i) == patents[i].doc_number = request.my_doc_number
            kept == SelectSeq(candidates, LAMBDA c : ~Own(c.idx))
        IN  /\ window \subseteq qualifying
            /\ Len(candidates) = Min(request.top_k, Cardinality(qualifying))
            /\ \A i \in window, j \in qualifying \ window :
                  request.query[i] >= request.query[j]
            /\ Len(results) = Len(kept)
            /\ \A k \in DOMAIN kept :
                  results[k].doc_number = patents[kept[k].idx].doc_number
            /\ (\E i \in window : Own(i)) =>
                  Len(results) = Len(candidates) - 1

\* the own record took one of the top_k places: one result fewer than asked
\* for, while a record of another owner qualifies outside the window
OwnRecordTookASlotWitness ==
    /\ Searching("infringement")
    /\ Len(candidates) = request.top_k
    /\ Len(results) = request.top_k - 1
    /\ \E k \in DOMAIN candidates :
          patents[candidates[k].idx].doc_number = request.my_doc_number
    /\ \E j \in DOMAIN patents :
          /\ Qualifies(j)
          /\ patents[j].doc_number # request.my_doc_number
          /\ \A k \in DOMAIN candidates : candidates[k].idx # j

\* C29: every scenario method draws its results from the 100 highest-ranked
\* records only: a record ranked outside them never appears in a result
\* list, even when it passes every filter and fewer than top_k results are
\* returned, and no call returns more than min(top_k, 100) results.
ResultsFromRankingWindow ==
    (pc = "done" /\ op \in Scenarios /\ "query" \in DOMAIN request) =>
        /\ \A k \in DOMAIN results :
              InWindow(_doc_index[results[k].doc_number])
        /\ Len(results) <= Min(request.top_k, RankWindow)

\* a record of the requested class ranks below the window and is left out,
\* although the call returns fewer than top_k results
RecordBelowWindowLeftOutWitness ==
    /\ Searching("invalidity")
    /\ request.classification # ""
    /\ Len(results) >= 1
    /\ Len(results) < request.top_k
    /\ \E i \in DOMAIN patents :
          /\ ~InWindow(i)
          /\ StartsWith(Upper(patents[i].classification),
                        Upper(request.classification))
          /\ \A k \in DOMAIN results :
                results[k].doc_number # patents[i].doc_number

\* C30: for every infringement result, the reported risk_level is the level
\* the risk thresholds assign to the reported similarity_score (the score
\* rounded to 4 decimal places): a result reported with 0.9 never has
\* "Very High", one reported with 0.7 never has "Medium".
RiskLevelOfReportedScore ==
    Answered("infringement") =>
        \A k \in DOMAIN results :
            /\ results[k].risk_level =
                  _calculate_risk_level(results[k].similarity_score)
            /\ results[k].similarity_score = RiskVeryHighAbove =>
                  results[k].risk_level # "Very High"
            /\ results[k].similarity_score = RiskHighFrom =>
                  results[k].risk_level # "Medium"

\* which claim texts of the model contain a back-reference of the form
\* "claim <number>" or "claims <number>"
RefersToClaim ==
    [t \in ClaimTexts |->
        t \in {"the valve of claim 1", "The Valve Of Claims 1-3",
               "a cap as in claim  2"}]

\* C28: independent_claims is, in original order, the first 3 of the claims
\* that are independent: the first claim of the list whatever its text, and
\* any other claim exactly when its text contains no back-reference
\* "claim <number>" or "claims <number>"; it never has more than 3 entries
\* and is empty only for an empty claim list.
IndependentClaimsFirstThree ==
    Done("independent_claims") =>
        LET claims == request.claims
            independent ==
                {i \in DOMAIN claims : i = 1 \/ ~RefersToClaim[claims[i]]}
        IN  /\ results = Take(Pick(claims, independent), 3)
            /\ Len(results) <= 3
            /\ results = <<>> <=> claims = <<>>

\* a first claim that refers to another claim is returned, a later one that
\* does is not, and a fourth independent claim is cut off
FirstClaimKeptFourthCutWitness ==
    /\ Done("independent_claims")
    /\ Len(request.claims) = 4
    /\ RefersToClaim[request.claims[1]]
    /\ \A i \in 2..4 : ~RefersToClaim[request.claims[i]]
    /\ results = SubSeq(request.claims, 1, 3)

\* C27: constructing the engine does not load the model when a persisted
\* index exists; the first operation that needs an embedding loads it; and
\* once it is loaded every later call of a sequential run uses that same
\* instance: it is never loaded again or replaced.
ModelLoadedOnFirstUseThenKept ==
    [][/\ (files.index.exists /\ pc' = "done" /\ op' = "construct")
            => model' = None
       /\ (pc' = "done" /\ op' = "rank") => model' = "loaded"
       /\ (pc' = "done" /\ op' = "get_by_id") => model' = model
       /\ model # None => model' = model]_vars

\* an engine whose rows came from the embeddings file has ranked a query:
\* the model is loaded
ModelLoadedByRankingWitness ==
    /\ Done("rank")
    /\ model = "loaded"
    /\ files.index.exists
    /\ embeddings = files.index.rows
    /\ Len(candidates) >= 1

=============================================================================
